---- MODULE Spec2Model ----
(***************************************************************************)
(* Execution engines of the workflow library: Sequential (sequential.go)   *)
(* and Pipe (pipe.go), with the in-memory result store of storage_test.go. *)
(* One engine instance is constructed (Init) and Execute is called on it   *)
(* one or more times; a step invocation, a CanRetry() call and the value a *)
(* transforming step returns are inputs of the environment.                *)
(***************************************************************************)
EXTENDS Integers, Sequences, FiniteSets, TLC

\* ------------------------------------------------------------ bounds
\* Longest step list an engine is constructed with.
MaxSteps == 2
\* Largest maxAttempts a RetryConfigProvider returns.
MaxAttempts == 2
\* Execute calls made against one store with one correlation id.
MaxRuns == 3
\* Request values of the Pipe engine are 0..MaxValue; 0 is the zero value of T.
MaxValue == 1
\* Longest list of after-workflow hooks.
MaxHooks == 2
\* Longest step name given to the store's sanitizer.
MaxLen == 3
\* Most options passed to NewSequential.
MaxOpts == 2
\* Most buffers the pool's New function allocates.
MaxBufs == 2
\* Log messages each engine builds (Execute of an empty Pipe builds two).
MaxCalls == 2

Values == 0..MaxValue
ZeroValue == 0

\* ------------------------------------------------------------ state
VARIABLES
    kind,        \* "Sequential" | "Pipe" | "SequentialHooks": the engine's type
    stepsConfig, \* the engine's []SequentialStepConfig / []PipeStepConfig
    hasStore,    \* Sequential.store != nil
    correlationID, \* Sequential.correlationID: NoID (nil) or an id
    faulty,      \* the attached Storage may return errors (FALSE: the Repository)
    afterWorkflowHooks, \* Sequential.afterWorkflowHooks (the variant with hooks)
    maxRetryAttempts,   \* Sequential.maxRetryAttempts (the variant with hooks)
    repo,        \* Repository.steps: correlation id -> list of repositoryStep
    pc,          \* position of the running Execute
    run,         \* number of Execute calls made so far
    idx,         \* index of the step the range loop is at (1-based)
    attempt,     \* executeStep's attempt counter
    err,         \* executeStep's err
    errs,        \* Execute's errs
    arg,         \* the request Execute was called with
    req,         \* Pipe.Execute's req
    out,         \* Pipe.Execute's out
    stepOut,     \* Pipe.executeStep's out
    result,      \* what the last Execute returned: [err, out]
    obs,         \* what was observed of each step in the current run
    past,        \* what the earlier runs did since the id was last cleared
    frames,      \* the Execute calls that are suspended: the caller of a nested
                 \* workflow, or the other engine that shares the store
    nested,      \* the Sequential workflow that is a step of this one, if any
    ctor,        \* NewSequential's type argument and options, and the logger set
    ctx,         \* the context Execute is called with: "live" | "cancelled"
    bufPool,     \* the buffers that are in the sync.Pool
    buffers,     \* the bytes.Buffer values allocated: backing array and length
    loggers      \* per goroutine: where its concatStr / log call is

vars == <<kind, stepsConfig, hasStore, correlationID, faulty,
          afterWorkflowHooks, maxRetryAttempts, repo, pc, run,
          idx, attempt, err, errs, arg, req, out, stepOut, result, obs, past,
          frames, nested, ctor, ctx, bufPool, buffers, loggers>>

engineVars == <<kind, stepsConfig, hasStore, correlationID, faulty,
                afterWorkflowHooks, maxRetryAttempts>>

logVars == <<bufPool, buffers, loggers>>

contextVars == <<frames, nested, ctor, ctx, logVars>>

\* ------------------------------------------------------------ errors
\* An error value: its text, and what errors.Is finds in it (an error is
\* identified by its origin: the step and the invocation that returned it).
NilErr == [text |-> <<"nil", 0>>, is |-> {}]

\* The error the k-th invocation of step i returns.
StepErr(i, k) == [text |-> <<"step", i>>, is |-> {<<"step", i, k>>}]

ErrMissingCorrelationID == [text |-> <<"missing correlation ID", 0>>,
                            is |-> {<<"missing correlation ID", 0, 0>>}]

\* An error a failing Storage call returns.
StoreErr == [text |-> <<"storage failure", 0>>,
             is |-> {<<"storage failure", 0, 0>>}]

\* fmt.Errorf("...%q", e): a new error carrying text only, wrapping nothing.
ErrorfQ(prefix, e) == [text |-> <<prefix, e.text[2]>>,
                       is |-> {<<prefix, e.text[2], 0>>}]

\* errors.Join(errs...): its text lists the texts of the joined errors in
\* order; Is() succeeds on whatever one of the joined errors holds.
Join(es) == [text |-> <<"join", [k \in 1..Len(es) |-> es[k].text]>>,
             is |-> UNION {es[k].is : k \in 1..Len(es)}]

\* ------------------------------------------------------------ step names
Letters == {"a","b","c","d","e","f","g","h","i","j","k","l","m","n","o","p","q",
            "r","s","t","u","v","w","x","y","z","A","B","C","D","E","F","G","H",
            "I","J","K","L","M","N","O","P","Q","R","S","T","U","V","W","X","Y","Z"}
Digits == {"0","1","2","3","4","5","6","7","8","9"}

DigitChar == <<"1","2","3","4","5","6","7","8","9">>

\* The name of the step at position i of the list: "step 1", "step 2", ...
StepName(i) == <<"s","t","e","p"," ",DigitChar[i]>>

\* clean's loop: the bytes kept so far (s[:j]) after reading s[1..n].
RECURSIVE cleanKept(_, _)
cleanKept(s, n) ==
    IF n = 0 THEN <<>>
    ELSE LET kept == cleanKept(s, n - 1)
             b == s[n]
             j == Len(kept)
         IN IF \/ b \in Letters
               \/ b \in Digits
               \/ (b = " " /\ (j # 0 /\ kept[j] # " "))
               \/ (b = "_" /\ (j # 0 /\ kept[j] # "_"))
            THEN Append(kept, b)
            ELSE kept

\* strings.ReplaceAll(x, " ", "_")
ReplaceSpaces(x) == [k \in 1..Len(x) |-> IF x[k] = " " THEN "_" ELSE x[k]]

clean(s) == ReplaceSpaces(cleanKept(s, Len(s)))

\* ------------------------------------------------------------ the store
NoID == "nil"
CorrID == "abcd-1234"

SUCCESS == "SUCCESS"
FAILED == "FAILED"

NewInMemoryRepository == <<>>

RepoList(r, cid) == IF cid \in DOMAIN r THEN r[cid] ELSE <<>>

\* Repository.Save: appends one repositoryStep to the id's list.
RepoSave(r, stepName, cid, status, output) ==
    (cid :> Append(RepoList(r, cid),
                   [name |-> clean(stepName), status |-> status, output |-> output]))
    @@ r

\* Index of the first stored step with that (cleaned) name, 0 if none.
RepoFind(r, stepName, cid) ==
    LET hits == {k \in 1..Len(RepoList(r, cid)) : r[cid][k].name = clean(stepName)}
    IN IF hits = {} THEN 0 ELSE CHOOSE k \in hits : \A m \in hits : k <= m

\* Repository.Get: the status of the first stored step with that name.
RepoGet(r, stepName, cid) ==
    IF cid \notin DOMAIN r THEN [status |-> "", err |-> StoreErr]
    ELSE IF RepoFind(r, stepName, cid) = 0 THEN [status |-> "", err |-> StoreErr]
    ELSE [status |-> r[cid][RepoFind(r, stepName, cid)].status, err |-> NilErr]

\* A Clear that empties the list of every correlation id.
RepoClearEverything(r, cid) == [c \in DOMAIN r \cup {cid} |-> <<>>]

\* Repository.Clear
RepoClear(r, cid) == (cid :> <<>>) @@ r

\* ------------------------------------------------------------ integers
\* Width of uint and int in the model.
WordBits == 8

\* int(u) for a uint u
ToInt(u) == IF u >= 2^(WordBits - 1) THEN u - 2^WordBits ELSE u

\* attempt++ on an int
IntInc(a) == IF a = 2^(WordBits - 1) - 1 THEN 0 - 2^(WordBits - 1) ELSE a + 1

\* attempt++ on a uint
UintInc(a) == (a + 1) % 2^WordBits

\* ------------------------------------------------------------ construction
\* The step configurations position i of a list may hold. A Pipe step has no
\* ContinueWorkflowOnError; a nil RetryConfigProvider leaves maxAttempts unset.
StepConfigs(k, i) ==
    UNION {{[name |-> StepName(i), ContinueWorkflowOnError |-> c,
             hasRetryConfig |-> h, maxAttempts |-> m, retryDecider |-> d] :
                c \in IF k = "Pipe" THEN {FALSE} ELSE BOOLEAN,
                m \in IF h THEN 0..MaxAttempts ELSE {0},
                d \in BOOLEAN} : h \in BOOLEAN}

RECURSIVE ConfigLists(_, _)
ConfigLists(k, n) ==
    IF n = 0 THEN {<<>>}
    ELSE {Append(l, c) : l \in ConfigLists(k, n - 1), c \in StepConfigs(k, n)}

\* What has been observed of a step in the current run: inv, the number of
\* Execute invocations, and oks, how many of them returned no error; last, the
\* outcome of the latest one; yes, the number of CanRetry() calls answered
\* true, and noAt, the invocation after which CanRetry() first answered false
\* (0: never); got, what the skip lookup returned; saves and saved, the Save
\* calls issued for it, savedOut, the output text of the latest one, and
\* savedOf, the error that text was taken from; db, what storeStepResult
\* returned ("nil", "missing": no correlation id, "failed": Save's error);
\* ret, the error executeStep returned for it; recv and outv, the request the
\* latest invocation received and the value it returned (Pipe); first, the
\* request the first invocation received; sleeps, the number of time.Sleep
\* calls made for it, and sleptBefore, the invocation the latest one preceded.
NoObs == [inv |-> 0, oks |-> 0, last |-> "none", yes |-> 0, noAt |-> 0,
          got |-> "nocall", saves |-> 0, saved |-> "",
          savedOut |-> <<"", 0>>, savedOf |-> {}, db |-> "nocall",
          ret |-> NilErr,
          recv |-> ZeroValue, outv |-> ZeroValue,
          first |-> ZeroValue, sleeps |-> 0, sleptBefore |-> 0]

\* One observation per step of the list and, after them, per hook.
FreshObs == [i \in 1..(Len(stepsConfig) + Len(afterWorkflowHooks)) |-> NoObs]

\* The steps whose attempt sequence ended in success (ok) and in error (failed)
\* in an earlier run, and the number of those runs, since the last Clear.
NoPast == [ok |-> {}, failed |-> {}, runs |-> 0]

\* What Execute returned, the number of Clear calls it made, and whether it
\* cleared the id's stored results.
NoResult == [returned |-> FALSE, err |-> NilErr, out |-> ZeroValue,
             clears |-> 0, cleared |-> FALSE]

\* The engines of sequential.go and pipe.go have no hooks and no engine-wide
\* retry parameters.
NoHooks ==
    /\ afterWorkflowHooks = <<>>
    /\ maxRetryAttempts = 0

\* No workflow is nested in the engine's step list.
NoNested == [at |-> 0, stepsConfig |-> <<>>, runs |-> 0, obs |-> <<>>,
             result |-> NoResult]

\* NewSequential was called for T = any without options.
NoOptions == [T |-> "any", opts |-> <<>>, log |-> "nil"]

\* No log message is being built: the engine's logger is nil or the no-op one.
NoLogging ==
    /\ bufPool = {}
    /\ buffers = <<>>
    /\ loggers = <<>>

\* One engine, constructed without options, whose steps are plain steps.
InitEngine ==
    /\ frames = <<>>
    /\ nested = NoNested
    /\ ctor = NoOptions

\* The same; Execute will be called with a context that is not cancelled.
InitAlone ==
    /\ InitEngine
    /\ ctx = "live"
    /\ NoLogging

\* The locals of Execute before it is called.
InitLocals ==
    /\ pc = "idle"
    /\ run = 0
    /\ idx = 0
    /\ attempt = 0
    /\ err = NilErr
    /\ errs = <<>>
    /\ req = ZeroValue
    /\ out = ZeroValue
    /\ stepOut = ZeroValue
    /\ result = NoResult
    /\ obs = FreshObs
    /\ past = NoPast

\* NewSequential / NewPipe have returned; Execute has not been called yet
\* (the request it will be called with is the zero value of T).
InitCall ==
    /\ InitAlone
    /\ arg = ZeroValue
    /\ InitLocals

\* The same, with a store nothing has been saved to.
InitRun ==
    /\ repo = NewInMemoryRepository
    /\ InitCall

\* The results an earlier run over the first n steps of the list may have left
\* under the correlation id: for each step none or SUCCESS, as Save records it.
RECURSIVE StoredLists(_)
StoredLists(n) ==
    IF n = 0 THEN {<<>>}
    ELSE UNION {{l,
                 Append(l, [name |-> clean(StepName(n)), status |-> SUCCESS,
                            output |-> <<"", 0>>])} : l \in StoredLists(n - 1)}

\* The steps of the replay scenarios: a step either has neither a retry
\* configuration nor a RetryDecider, or has both with maxAttempts = MaxAttempts.
ReplayConfigLists(n) ==
    {l \in ConfigLists("Sequential", n) :
        \A i \in 1..n : /\ l[i].hasRetryConfig = l[i].retryDecider
                        /\ l[i].maxAttempts \in {0, MaxAttempts}
                        /\ l[i].hasRetryConfig => l[i].maxAttempts = MaxAttempts}

\* NewSequential with any of WithStorage / WithCorrelationID; the store is the
\* in-memory Repository and, when attached, comes with a correlation id and
\* the steps of the replay scenarios.
InitSequential ==
    /\ kind = "Sequential"
    /\ hasStore \in BOOLEAN
    /\ correlationID = IF hasStore THEN CorrID ELSE NoID
    /\ \E n \in 0..MaxSteps :
         stepsConfig \in IF hasStore THEN ReplayConfigLists(n)
                         ELSE ConfigLists("Sequential", n)
    /\ faulty = FALSE
    /\ NoHooks
    /\ InitRun

\* NewSequential with WithStorage(NewInMemoryRepository()) and
\* WithCorrelationID, as in Test_Sequential_With_Storage.
InitReplay ==
    /\ kind = "Sequential"
    /\ \E n \in 1..MaxSteps : stepsConfig \in ReplayConfigLists(n)
    /\ hasStore = TRUE
    /\ correlationID = CorrID
    /\ faulty = FALSE
    /\ NoHooks
    /\ InitRun

\* NewSequential with WithStorage, with or without WithCorrelationID; the
\* Storage attached is the Repository or an implementation whose calls may
\* return errors, and it may hold the results of an earlier run.
InitStore ==
    /\ kind = "Sequential"
    /\ \E n \in 0..MaxSteps : stepsConfig \in ReplayConfigLists(n)
    /\ hasStore = TRUE
    /\ correlationID \in {NoID, CorrID}
    /\ faulty \in BOOLEAN
    /\ NoHooks
    /\ \E l \in StoredLists(Len(stepsConfig)) :
         repo = IF l = <<>> \/ correlationID = NoID
                THEN NewInMemoryRepository
                ELSE (CorrID :> l)
    /\ InitCall

\* NewPipe
InitPipe ==
    /\ kind = "Pipe"
    /\ \E n \in 0..MaxSteps : stepsConfig \in ConfigLists("Pipe", n)
    /\ hasStore = FALSE
    /\ correlationID = NoID
    /\ faulty = FALSE
    /\ NoHooks
    /\ InitRun

Init == InitSequential \/ InitPipe

\* ------------------------------------------------------------ Sequential
NumSteps == Len(stepsConfig)

\* The outcomes a Storage call can have: TRUE, it works as the Repository does;
\* FALSE, it returns an error.
StoreOutcomes == IF faulty THEN {TRUE, FALSE} ELSE {TRUE}

\* s.store.Get as the engine sees it.
StoreGet(worked, stepName) ==
    IF worked THEN RepoGet(repo, stepName, correlationID)
    ELSE [status |-> "", err |-> StoreErr]

\* A skipStep that skips when the lookup fails.
skipStepOnError(got) == got.err # NilErr \/ got.status = SUCCESS

\* A skipStep that never skips.
skipStepNever(got) == FALSE

\* Sequential.skipStep, given what Get returns.
skipStep(got) ==
    IF ~hasStore THEN FALSE
    ELSE IF correlationID = NoID THEN FALSE
    ELSE IF got.err # NilErr THEN FALSE
    ELSE got.status = SUCCESS

\* What the lookup of skipStep returned: "nocall" when Get is not reached.
GotOf(got) ==
    IF ~hasStore \/ correlationID = NoID THEN "nocall"
    ELSE IF got.err # NilErr THEN "error"
    ELSE got.status

\* A maxAttempts that defaults to one retry without a RetryConfigProvider.
RetryMaxAttemptsDefault(cfg) == IF cfg.hasRetryConfig THEN cfg.maxAttempts ELSE 1

\* A maxAttempts that allows one attempt more than the provider returned.
RetryMaxAttemptsOneMore(cfg) == (IF cfg.hasRetryConfig THEN cfg.maxAttempts ELSE 0) + 1

\* maxAttempts as executeStep reads it (zero when RetryConfigProvider is nil).
RetryMaxAttempts(cfg) == IF cfg.hasRetryConfig THEN cfg.maxAttempts ELSE 0

\* A for condition that stops one attempt early.
SeqLoopGuardStrict(a, cfg) == a < ToInt(IF cfg.hasRetryConfig THEN cfg.maxAttempts ELSE 0)

\* The for condition of Sequential.executeStep.
SeqLoopGuard(a, cfg) == a <= ToInt(RetryMaxAttempts(cfg))

\* The for condition of Pipe.executeStep.
PipeLoopGuard(a, cfg) == a <= RetryMaxAttempts(cfg)

\* A break that does not ask CanRetry().
StopsRetryingUnasked(cfg, canRetry) == ~cfg.retryDecider

\* The break after a failed attempt: no RetryDecider, or CanRetry() false.
StopsRetrying(cfg, canRetry) == ~cfg.retryDecider \/ (cfg.retryDecider /\ ~canRetry)

\* The answers CanRetry() may give after an attempt (asked only after a failed
\* attempt of a step that implements RetryDecider).
CanRetryAnswers(cfg, ok) == IF ~ok /\ cfg.retryDecider THEN BOOLEAN ELSE {FALSE}

\* A retry loop that sleeps before every attempt.
RetrySleepsAlways(a) == TRUE

\* Whether an iteration of the retry loop sleeps before it invokes the step.
RetrySleeps(a) == a > 0

\* The head of an iteration of the retry loop, as observed: time.Sleep is
\* called, or not, right before the step's next invocation.
Slept(o, a) ==
    IF RetrySleeps(a)
    THEN [o EXCEPT !.sleeps = @ + 1, !.sleptBefore = o.inv + 1]
    ELSE o

\* One invocation of the step with its outcome, as observed.
Invoked(o, ok, cfg, canRetry, received, returned) ==
    [o EXCEPT !.inv = @ + 1,
              !.oks = IF ok THEN @ + 1 ELSE @,
              !.last = IF ok THEN "ok" ELSE "err",
              !.yes = IF ~ok /\ cfg.retryDecider /\ canRetry THEN @ + 1 ELSE @,
              !.noAt = IF ~ok /\ cfg.retryDecider /\ ~canRetry /\ @ = 0
                       THEN o.inv + 1 ELSE @,
              !.recv = received,
              !.outv = returned,
              !.first = IF o.inv = 0 THEN received ELSE @]

\* An engine that ends its loops once the context is cancelled.
ContextDoneWhenCancelled(c) == c = "cancelled"

\* Whether the engine finds the context done: Execute and executeStep hand ctx
\* to skipStep, to step.Execute and to the store, and read neither ctx.Done()
\* nor ctx.Err(), at the head of the range loop or around time.Sleep.
ContextDone(c) == FALSE

\* A loop that goes back to the step before once it is past the first.
NextStepBack(i) == IF i > 1 THEN i - 1 ELSE i + 1

\* The range loop over stepsConfig: the position after position i.
NextStep(i) == i + 1

\* A loop that ends after its first step.
AfterStepEnds(i) == "finish"

\* The position after the step at idx is done with: the next step or the end.
AfterStep(i) == IF i + 1 > NumSteps THEN "finish" ELSE "loop"

\* What a call of Execute starts from.
SeqEnter ==
    /\ run' = run + 1
    /\ idx' = 1
    /\ attempt' = 0
    /\ err' = NilErr
    /\ errs' = <<>>
    /\ obs' = FreshObs
    /\ result' = NoResult
    /\ pc' = IF NumSteps = 0 THEN "finish" ELSE "loop"
    /\ past' = IF run = 0 \/ result.cleared THEN NoPast
               ELSE [ok |-> past.ok \cup {i \in 1..NumSteps : obs[i].last = "ok"},
                     failed |-> past.failed \cup {i \in 1..NumSteps : obs[i].last = "err"},
                     runs |-> past.runs + 1]
    /\ UNCHANGED <<engineVars, contextVars, arg, repo, req, out, stepOut>>

\* Execute is called on the engine.
SeqExecute ==
    /\ kind = "Sequential"
    /\ pc = "idle"
    /\ SeqEnter

\* Replay: after Execute returned, a new engine is constructed over the same
\* steps, store and correlation id, and its Execute is called.
SeqExecuteAgain ==
    /\ kind = "Sequential"
    /\ pc = "done"
    /\ hasStore
    /\ run < MaxRuns
    /\ SeqEnter

\* The head of the range loop: skipStep, then the entry of executeStep.
SeqSkipStep ==
    /\ kind = "Sequential"
    /\ pc = "loop"
    /\ \E worked \in StoreOutcomes :
         LET cfg == stepsConfig[idx]
             got == StoreGet(worked, cfg.name)
         IN /\ obs' = [obs EXCEPT ![idx].got = GotOf(got)]
            /\ IF ContextDone(ctx)
               THEN /\ idx' = idx
                    /\ pc' = "finish"
               ELSE IF skipStep(got)
               THEN /\ idx' = NextStep(idx)
                    /\ pc' = AfterStep(idx)
               ELSE /\ idx' = idx
                    /\ pc' = IF SeqLoopGuard(0, cfg) THEN "attempt" ELSE "store"
    /\ attempt' = 0
    /\ err' = NilErr
    /\ UNCHANGED <<engineVars, contextVars, arg, repo, run, errs, req, out, stepOut, result, past>>

\* An executeStep that passes the zero value of T to the step.
executeStepReqZero(r) == ZeroValue

\* The request executeStep passes to step.Execute, given the request Execute
\* was called with: Execute hands its req to executeStep, which hands it on.
executeStepReq(r) == r

\* One iteration of executeStep's loop: the step is invoked; a failed attempt
\* of a retryable step goes on to the next iteration while the guard allows.
SeqAttempt ==
    /\ kind = "Sequential"
    /\ pc = "attempt"
    /\ LET cfg == stepsConfig[idx]
       IN \E ok \in BOOLEAN :
          \E canRetry \in CanRetryAnswers(cfg, ok) :
            /\ obs' = [obs EXCEPT ![idx] = Invoked(Slept(@, attempt), ok, cfg, canRetry,
                                                    executeStepReq(arg), ZeroValue)]
            /\ err' = IF ok THEN NilErr ELSE StepErr(idx, obs[idx].inv + 1)
            /\ IF ok \/ StopsRetrying(cfg, canRetry) \/ ContextDone(ctx)
               THEN /\ attempt' = attempt
                    /\ pc' = "store"
               ELSE /\ attempt' = IntInc(attempt)
                    /\ pc' = IF SeqLoopGuard(IntInc(attempt), cfg) THEN "attempt" ELSE "store"
    /\ UNCHANGED <<engineVars, contextVars, arg, repo, run, idx, errs, req, out, stepOut, result, past>>

\* Sequential.storeStepResult: the error it returns.
storeStepResultErr(worked) ==
    IF ~hasStore THEN NilErr
    ELSE IF correlationID = NoID
         THEN ErrorfQ("cannot store step result in DB", ErrMissingCorrelationID)
    ELSE IF worked THEN NilErr ELSE StoreErr

\* What storeStepResult returned, as observed.
DbOf(dbErr) ==
    IF dbErr = NilErr THEN "nil"
    ELSE IF dbErr = StoreErr THEN "failed"
    ELSE "missing"

\* Sequential.storeStepResult: whether Save is called.
storeStepResultSaves == hasStore /\ correlationID # NoID

\* A storeStepResult that passes no output text.
SavedOutputNone(e) == <<"", 0>>

\* A storeStepResult that records every result as FAILED.
SavedStatusFailed(e) == FAILED

\* The status and the output storeStepResult passes to Save.
SavedStatus(e) == IF e # NilErr THEN FAILED ELSE SUCCESS
SavedOutput(e) == IF e # NilErr THEN e.text ELSE <<"", 0>>

\* The error executeStep returns, given its err and storeStepResult's dbErr.
executeStepErr(e, dbErr) ==
    IF dbErr # NilErr THEN ErrorfQ("error storing step execution result", e) ELSE e

\* An Execute that goes on after every step error.
ContinuesAlways(cfg) == TRUE

\* Whether Execute goes on to the next step after a step error.
ContinuesOnError(cfg) == cfg.ContinueWorkflowOnError

\* The end of executeStep (storeStepResult, the error returned) and what
\* Execute does with that error: collect it, then continue or break.
SeqStoreResult ==
    /\ kind = "Sequential"
    /\ pc = "store"
    /\ \E worked \in StoreOutcomes :
         LET cfg == stepsConfig[idx]
             dbErr == storeStepResultErr(worked)
             e == executeStepErr(err, dbErr)
         IN /\ IF storeStepResultSaves
               THEN /\ repo' = IF worked
                               THEN RepoSave(repo, cfg.name, correlationID,
                                             SavedStatus(err), SavedOutput(err))
                               ELSE repo
                    /\ obs' = [obs EXCEPT ![idx].saves = @ + 1,
                                          ![idx].saved = SavedStatus(err),
                                          ![idx].savedOut = SavedOutput(err),
                                          ![idx].savedOf = err.is,
                                          ![idx].db = DbOf(dbErr),
                                          ![idx].ret = e]
               ELSE /\ repo' = repo
                    /\ obs' = [obs EXCEPT ![idx].db = DbOf(dbErr),
                                          ![idx].ret = e]
            /\ IF e # NilErr
               THEN /\ errs' = Append(errs, e)
                    /\ IF ContinuesOnError(cfg)
                       THEN idx' = NextStep(idx) /\ pc' = AfterStep(idx)
                       ELSE idx' = idx /\ pc' = "finish"
               ELSE /\ errs' = errs
                    /\ idx' = NextStep(idx)
                    /\ pc' = AfterStep(idx)
    /\ attempt' = 0
    /\ err' = NilErr
    /\ UNCHANGED <<engineVars, contextVars, arg, run, req, out, stepOut, result, past>>

\* A clearDB that calls Clear without looking at the correlation id.
clearDBClearsAnyway == hasStore

\* Sequential.clearDB: whether Clear is called.
clearDBClears == hasStore /\ correlationID # NoID

\* An Execute that returns the first error it collected.
ExecuteErrFirst(es, clearErr) == IF Len(es) >= 1 THEN es[1] ELSE clearErr

\* An Execute that drops the errors it collected.
ExecuteErrDropped(es, clearErr) == clearErr

\* An Execute that returns nil whatever clearDB returned.
ExecuteErrClearIgnored(es, clearErr) ==
    IF Len(es) = 1 THEN es[1]
    ELSE IF Len(es) > 1 THEN Join(es)
    ELSE NilErr

\* The error Execute returns for the errors it collected (clearDB's when none).
ExecuteErr(es, clearErr) ==
    IF Len(es) = 1 THEN es[1]
    ELSE IF Len(es) > 1 THEN Join(es)
    ELSE clearErr

\* An Execute that leaves the engine with its step list reversed.
StepsReversed(l) == [i \in 1..Len(l) |-> l[Len(l) + 1 - i]]

\* The engine's step list after a call of Execute, given the list before it:
\* Execute and executeStep read s.stepsConfig (the range loop, with a copy of
\* each element) and never assign the field or an element of it.
StepsAfterExecute(l) == l

\* The switch after the loop and clearDB: Execute returns.
SeqReturn ==
    /\ kind = "Sequential"
    /\ pc = "finish"
    /\ \E worked \in StoreOutcomes :
         LET clears == Len(errs) = 0 /\ clearDBClears
             clearErr == IF clears /\ ~worked THEN StoreErr ELSE NilErr
         IN /\ repo' = IF clears /\ worked THEN RepoClear(repo, correlationID) ELSE repo
            /\ result' = [returned |-> TRUE, err |-> ExecuteErr(errs, clearErr),
                          out |-> ZeroValue,
                          clears |-> IF clears THEN 1 ELSE 0,
                          cleared |-> clears /\ worked]
    /\ pc' = "done"
    /\ stepsConfig' = StepsAfterExecute(stepsConfig)
    /\ UNCHANGED <<kind, hasStore, correlationID, faulty, afterWorkflowHooks,
                   maxRetryAttempts, contextVars, arg, run, idx, attempt, err,
                   errs, req, out, stepOut, obs, past>>

\* ------------------------------------------------------------ Pipe
\* An Execute whose out starts as the request.
PipeOutOfRequest(r) == r

\* `var out T` in Pipe.Execute: out starts as the zero value of T, whatever
\* the request.
PipeOut(r) == ZeroValue

\* Execute is called with a request.
PipeExecute ==
    /\ kind = "Pipe"
    /\ pc = "idle"
    /\ run' = run + 1
    /\ \E v \in Values : arg' = v /\ req' = v /\ out' = PipeOut(v)
    /\ stepOut' = ZeroValue
    /\ idx' = 1
    /\ attempt' = 0
    /\ err' = NilErr
    /\ obs' = FreshObs
    /\ result' = NoResult
    /\ pc' = IF NumSteps = 0 THEN "finish" ELSE "attempt"
    /\ UNCHANGED <<engineVars, contextVars, repo, errs, past>>

\* An executeStep that feeds a retry with the output of the failed attempt.
PipeAttemptReqOwnOutput(r, o, a) == IF a > 0 THEN o ELSE r

\* The request attempt a of a step receives, given executeStep's req and out:
\* step.Execute(ctx, req), whatever the attempt.
PipeAttemptReq(r, o, a) == r

\* One iteration of Pipe.executeStep's loop: the step is invoked with req and
\* returns a value and an error.
PipeAttempt ==
    /\ kind = "Pipe"
    /\ pc = "attempt"
    /\ LET cfg == stepsConfig[idx]
       IN \E ok \in BOOLEAN, v \in Values :
          \E canRetry \in CanRetryAnswers(cfg, ok) :
            /\ obs' = [obs EXCEPT ![idx] = Invoked(Slept(@, attempt), ok, cfg, canRetry,
                                                    PipeAttemptReq(req, stepOut, attempt), v)]
            /\ stepOut' = v
            /\ err' = IF ok THEN NilErr ELSE StepErr(idx, obs[idx].inv + 1)
            /\ IF ok \/ StopsRetrying(cfg, canRetry) \/ ContextDone(ctx)
               THEN /\ attempt' = attempt
                    /\ pc' = "after"
               ELSE /\ attempt' = UintInc(attempt)
                    /\ pc' = IF PipeLoopGuard(UintInc(attempt), cfg) THEN "attempt" ELSE "after"
    /\ UNCHANGED <<engineVars, contextVars, arg, repo, run, idx, errs, req, out, result, past>>

\* The request of the next iteration of Execute's loop, after the step at
\* position i (1-based) returned o.
PipeNextReq(i, r, o) == IF i - 1 > 0 THEN o ELSE r

\* A loop that goes on after a failed step.
PipeStopsNever(e) == FALSE

\* Whether Execute returns after the step: its attempt sequence ended in error.
PipeStops(e) == e # NilErr

\* The body of Execute's loop after executeStep returned: out and req are
\* assigned; an error returns at once, the last step returns out.
PipeAfterStep ==
    /\ kind = "Pipe"
    /\ pc = "after"
    /\ out' = stepOut
    /\ req' = PipeNextReq(idx, req, stepOut)
    /\ IF PipeStops(err)
       THEN /\ result' = [returned |-> TRUE, err |-> err, out |-> stepOut,
                           clears |-> 0, cleared |-> FALSE]
            /\ idx' = idx
            /\ pc' = "done"
       ELSE /\ idx' = NextStep(idx)
            /\ IF idx + 1 > NumSteps
               THEN /\ result' = [returned |-> TRUE, err |-> NilErr, out |-> stepOut,
                                   clears |-> 0, cleared |-> FALSE]
                    /\ pc' = "done"
               ELSE /\ result' = result
                    /\ pc' = "attempt"
    /\ attempt' = 0
    /\ err' = NilErr
    /\ stepOut' = ZeroValue
    /\ UNCHANGED <<engineVars, contextVars, arg, repo, run, errs, obs, past>>

\* Execute returns from an empty step list.
PipeReturn ==
    /\ kind = "Pipe"
    /\ pc = "finish"
    /\ result' = [returned |-> TRUE, err |-> NilErr, out |-> out,
                  clears |-> 0, cleared |-> FALSE]
    /\ pc' = "done"
    /\ UNCHANGED <<engineVars, contextVars, arg, repo, run, idx, attempt, err, errs, req, out, stepOut, obs, past>>

\* ------------------------------------------------------------ hooks variant
\* The Sequential engine of the Step-interface version: every step has
\* CanRetry(), ContinueWorkflowOnError() and StopWorkflow(); the retry
\* parameters belong to the engine; after-workflow hooks are steps too.
NumHooks == Len(afterWorkflowHooks)

HookName(j) == <<"h","o","o","k"," ",DigitChar[j]>>

\* The steps position i of the list may hold.
HookVariantSteps(i) ==
    {[name |-> StepName(i), ContinueWorkflowOnError |-> c, StopWorkflow |-> t,
      retryDecider |-> TRUE] : c \in BOOLEAN, t \in BOOLEAN}

RECURSIVE HookVariantLists(_)
HookVariantLists(n) ==
    IF n = 0 THEN {<<>>}
    ELSE {Append(l, c) : l \in HookVariantLists(n - 1), c \in HookVariantSteps(n)}

\* NewSequential with WithRetryOption, then AddAfterWorkflowHook for every hook.
InitHooks ==
    /\ kind = "SequentialHooks"
    /\ \E n \in 0..MaxSteps : stepsConfig \in HookVariantLists(n)
    /\ \E h \in 0..MaxHooks : afterWorkflowHooks = [j \in 1..h |-> [name |-> HookName(j)]]
    /\ maxRetryAttempts \in 0..MaxAttempts
    /\ hasStore = FALSE
    /\ correlationID = NoID
    /\ faulty = FALSE
    /\ InitRun

\* A workflowErr that keeps only the first error of the collection.
workflowErrFirst(es) == [text |-> <<"workflow errors", <<es[1].text>>>>,
                         is |-> {},
                         as |-> es[1].is]

\* newWorkflowErr(errs): its text lists the texts of the errors; it has an As
\* method over the collection, and neither Is nor Unwrap.
workflowErr(es) == [text |-> <<"workflow errors", [k \in 1..Len(es) |-> es[k].text]>>,
                    is |-> {},
                    as |-> UNION {es[k].is : k \in 1..Len(es)}]

\* The for condition of executeStep.
HookLoopGuard(a) == a <= maxRetryAttempts

\* The position after executeWorkflow's loop: the hooks, if any.
AfterWorkflow == IF NumHooks = 0 THEN "finish" ELSE "hook"

\* The position after the main step at idx: the next step or the hooks.
AfterMainStep(i) == IF i + 1 > NumSteps THEN AfterWorkflow ELSE "attempt"

\* A hook loop that ends at the first hook error.
AfterHookStopsOnError(j, e) ==
    IF e # NilErr \/ j + 1 > NumHooks THEN "finish" ELSE "hook"

\* The position after hook j returned e: the next hook or the end.
AfterHook(j, e) == IF j + 1 > NumHooks THEN "finish" ELSE "hook"

\* Execute is called: executeWorkflow starts.
HooksExecute ==
    /\ kind = "SequentialHooks"
    /\ pc = "idle"
    /\ run' = run + 1
    /\ idx' = 1
    /\ attempt' = 0
    /\ err' = NilErr
    /\ errs' = <<>>
    /\ obs' = FreshObs
    /\ result' = NoResult
    /\ pc' = IF NumSteps = 0 THEN AfterWorkflow ELSE "attempt"
    /\ UNCHANGED <<engineVars, contextVars, arg, repo, req, out, stepOut, past>>

\* One iteration of executeStep's loop: the step is invoked; after a failed
\* attempt CanRetry() is asked.
HooksAttempt ==
    /\ kind = "SequentialHooks"
    /\ pc = "attempt"
    /\ LET cfg == stepsConfig[idx]
       IN \E ok \in BOOLEAN :
          \E canRetry \in CanRetryAnswers(cfg, ok) :
            /\ obs' = [obs EXCEPT ![idx] = Invoked(@, ok, cfg, canRetry, ZeroValue, ZeroValue)]
            /\ err' = IF ok THEN NilErr ELSE StepErr(idx, obs[idx].inv + 1)
            /\ IF ok \/ ~canRetry
               THEN /\ attempt' = attempt
                    /\ pc' = "after"
               ELSE /\ attempt' = UintInc(attempt)
                    /\ pc' = IF HookLoopGuard(UintInc(attempt)) THEN "attempt" ELSE "after"
    /\ UNCHANGED <<engineVars, contextVars, arg, repo, run, idx, errs, req, out, stepOut, result, past>>

\* A loop that asks StopWorkflow() after a failed step as well.
StopWorkflowAskedAlways(e) == TRUE

\* Whether the loop body gets to `if step.StopWorkflow()`: an error continues
\* or breaks before it.
StopWorkflowAsked(e) == e = NilErr

\* The body of executeWorkflow's loop after executeStep returned: an error is
\* collected and the loop continues or breaks; a step that succeeded may stop
\* the workflow.
HooksAfterStep ==
    /\ kind = "SequentialHooks"
    /\ pc = "after"
    /\ LET cfg == stepsConfig[idx]
       IN /\ obs' = [obs EXCEPT ![idx].ret = err]
          /\ errs' = IF err # NilErr THEN Append(errs, err) ELSE errs
          /\ pc' = IF err # NilErr /\ ~cfg.ContinueWorkflowOnError
                    THEN AfterWorkflow
                    ELSE IF StopWorkflowAsked(err) /\ cfg.StopWorkflow
                    THEN AfterWorkflow
                    ELSE AfterMainStep(idx)
    /\ idx' = IF pc' = "attempt" THEN idx + 1 ELSE NumSteps + 1
    /\ attempt' = 0
    /\ err' = NilErr
    /\ UNCHANGED <<engineVars, contextVars, arg, repo, run, req, out, stepOut, result, past>>

\* One iteration of executeAfterWorkflowHooks: the hook at idx (the hooks
\* follow the steps) is invoked, its error, if any, is collected.
HooksRunHook ==
    /\ kind = "SequentialHooks"
    /\ pc = "hook"
    /\ \E ok \in BOOLEAN :
         LET j == idx - NumSteps
             e == IF ok THEN NilErr ELSE StepErr(idx, obs[idx].inv + 1)
         IN /\ obs' = [obs EXCEPT ![idx] =
                           [@ EXCEPT !.inv = @ + 1,
                                     !.oks = IF ok THEN @ + 1 ELSE @,
                                     !.last = IF ok THEN "ok" ELSE "err",
                                     !.ret = e]]
            /\ errs' = IF ok THEN errs ELSE Append(errs, e)
            /\ pc' = AfterHook(j, e)
    /\ idx' = idx + 1
    /\ UNCHANGED <<engineVars, contextVars, arg, repo, run, attempt, err, req, out, stepOut, result, past>>

\* Execute returns the collected errors as one workflowErr, or nil.
HooksReturn ==
    /\ kind = "SequentialHooks"
    /\ pc = "finish"
    /\ result' = [returned |-> TRUE,
                  err |-> IF errs # <<>> THEN workflowErr(errs) ELSE NilErr,
                  out |-> ZeroValue, clears |-> 0, cleared |-> FALSE]
    /\ pc' = "done"
    /\ UNCHANGED <<engineVars, contextVars, arg, repo, run, idx, attempt, err, errs, req, out, stepOut, obs, past>>

\* ------------------------------------------------------------ nesting
\* Sequential has Name() and Execute(ctx, req) error, so an engine is a
\* SequentialStep of another engine; it has no CanRetry().
\* The step lists of the outer workflow whose position p holds the nested one
\* (with or without a retry configuration); its other steps are not retried.
NestedConfigLists(n, p) ==
    {l \in ConfigLists("Sequential", n) :
        /\ ~l[p].retryDecider
        /\ l[p].maxAttempts = (IF l[p].hasRetryConfig THEN MaxAttempts ELSE 0)
        /\ \A i \in (1..n) \ {p} : ~l[i].hasRetryConfig /\ ~l[i].retryDecider}

\* The step lists of the nested workflow: its first step may be retried.
NestedStepLists(m) ==
    {l \in ReplayConfigLists(m) : \A i \in 2..m : ~l[i].hasRetryConfig}

\* NewSequential for the nested workflow, then NewSequential for the outer one
\* with the nested engine at one position of its list; neither has a store.
InitNested ==
    /\ kind = "Sequential"
    /\ \E n \in 1..MaxSteps : \E p \in 1..n : \E m \in 0..MaxSteps :
         /\ stepsConfig \in NestedConfigLists(n, p)
         /\ \E l \in NestedStepLists(m) :
              nested = [at |-> p, stepsConfig |-> l, runs |-> 0, obs |-> <<>>,
                        result |-> NoResult]
    /\ hasStore = FALSE
    /\ correlationID = NoID
    /\ faulty = FALSE
    /\ NoHooks
    /\ repo = NewInMemoryRepository
    /\ frames = <<>>
    /\ ctor = NoOptions
    /\ ctx = "live"
    /\ NoLogging
    /\ arg = ZeroValue
    /\ InitLocals

\* The locals of the running Execute and the fields of its engine that differ
\* from one engine to the other.
ThisFrame ==
    [stepsConfig |-> stepsConfig, correlationID |-> correlationID, pc |-> pc,
     run |-> run, idx |-> idx, attempt |-> attempt, err |-> err, errs |-> errs,
     result |-> result, obs |-> obs, past |-> past]

\* The outer Execute is at the position of the nested workflow.
AtNested == frames = <<>> /\ idx = nested.at

\* An outer executeStep that takes the nested workflow's result for nil.
NestedErrDropped(e) == NilErr

\* The error the nested Execute returns is the error step.Execute returns in
\* the outer executeStep; the errors of the nested workflow's steps are values
\* of their own, distinct from the errors of the outer workflow's steps.
NestedErr(e) == [text |-> e.text, is |-> {<<"nested", x[2], x[3]>> : x \in e.is}]

\* executeStep invokes a plain step.
NestedPlainAttempt ==
    /\ ~AtNested
    /\ SeqAttempt

\* executeStep invokes the nested workflow: its Execute starts.
NestedCall ==
    /\ kind = "Sequential"
    /\ pc = "attempt"
    /\ AtNested
    /\ frames' = <<ThisFrame>>
    /\ stepsConfig' = nested.stepsConfig
    /\ run' = nested.runs + 1
    /\ idx' = 1
    /\ attempt' = 0
    /\ err' = NilErr
    /\ errs' = <<>>
    /\ obs' = [i \in 1..Len(nested.stepsConfig) |-> NoObs]
    /\ result' = NoResult
    /\ pc' = IF Len(nested.stepsConfig) = 0 THEN "finish" ELSE "loop"
    /\ UNCHANGED <<kind, hasStore, correlationID, faulty, afterWorkflowHooks,
                   maxRetryAttempts, repo, arg, req, out, stepOut, past, nested, ctor, ctx, logVars>>

\* The nested Execute has returned: the outer executeStep goes on with the
\* error it returned, as after any step.Execute.
NestedReturn ==
    /\ kind = "Sequential"
    /\ pc = "done"
    /\ frames # <<>>
    /\ LET f == frames[1]
           cfg == f.stepsConfig[f.idx]
           e == NestedErr(result.err)
           ok == e = NilErr
       IN /\ stepsConfig' = f.stepsConfig
          /\ run' = f.run
          /\ idx' = f.idx
          /\ errs' = f.errs
          /\ result' = f.result
          /\ obs' = [f.obs EXCEPT ![f.idx] = Invoked(@, ok, cfg, FALSE, ZeroValue, ZeroValue)]
          /\ err' = e
          /\ IF ok \/ StopsRetrying(cfg, FALSE)
             THEN /\ attempt' = f.attempt
                  /\ pc' = "store"
             ELSE /\ attempt' = IntInc(f.attempt)
                  /\ pc' = IF SeqLoopGuard(IntInc(f.attempt), cfg) THEN "attempt" ELSE "store"
    /\ frames' = <<>>
    /\ nested' = [nested EXCEPT !.runs = @ + 1, !.obs = obs, !.result = result]
    /\ UNCHANGED <<kind, hasStore, correlationID, faulty, afterWorkflowHooks,
                   maxRetryAttempts, repo, arg, req, out, stepOut, past, ctor, ctx, logVars>>

\* ------------------------------------------------------------ a shared store
\* Two engines over the same step list (one per incoming event), each with its
\* own correlation id, share one Repository. Every Repository method holds the
\* mutex from entry to return, so a store call is one step; the engine whose
\* locals are in the variables is the one that takes the next step, the other
\* one is suspended in frames.
OtherID == "efgh-5678"

\* The step lists of the two engines: no step is retried.
SharedConfigLists(n) ==
    {l \in ConfigLists("Sequential", n) :
        \A i \in 1..n : ~l[i].hasRetryConfig /\ ~l[i].retryDecider}

\* The steps that have a stored result in l.
StoredSteps(l, n) ==
    {i \in 1..n : \E k \in 1..Len(l) : l[k].name = clean(StepName(i))}

\* A Repository holding l under the id (no entry for an empty l).
RepoOf(cid, l) == IF l = <<>> THEN NewInMemoryRepository ELSE (cid :> l)

\* Two NewSequential calls with WithStorage of the same Repository and
\* WithCorrelationID of different ids; each id may hold the results of an
\* earlier run (run and past tell of it).
InitShared ==
    /\ kind = "Sequential"
    /\ hasStore = TRUE
    /\ correlationID = CorrID
    /\ faulty = FALSE
    /\ NoHooks
    /\ \E n \in 1..MaxSteps :
         /\ stepsConfig \in SharedConfigLists(n)
         /\ \E la \in StoredLists(n), lb \in StoredLists(n) :
              /\ repo = RepoOf(CorrID, la) @@ RepoOf(OtherID, lb)
              /\ run = (IF la = <<>> THEN 0 ELSE 1)
              /\ past = [ok |-> StoredSteps(la, n), failed |-> {},
                         runs |-> IF la = <<>> THEN 0 ELSE 1]
              /\ frames = <<[stepsConfig |-> stepsConfig, correlationID |-> OtherID,
                             pc |-> "idle", run |-> IF lb = <<>> THEN 0 ELSE 1,
                             idx |-> 0, attempt |-> 0,
                             err |-> NilErr, errs |-> <<>>, result |-> NoResult,
                             obs |-> FreshObs,
                             past |-> [ok |-> StoredSteps(lb, n), failed |-> {},
                                       runs |-> IF lb = <<>> THEN 0 ELSE 1]]>>
    /\ nested = NoNested
    /\ ctor = NoOptions
    /\ ctx = "live"
    /\ NoLogging
    /\ pc = "idle"
    /\ idx = 0
    /\ attempt = 0
    /\ err = NilErr
    /\ errs = <<>>
    /\ arg = ZeroValue
    /\ req = ZeroValue
    /\ out = ZeroValue
    /\ stepOut = ZeroValue
    /\ result = NoResult
    /\ obs = FreshObs

\* The scheduler lets the other engine take the next step.
SharedSwitch ==
    /\ kind = "Sequential"
    /\ nested.at = 0
    /\ frames # <<>>
    /\ LET f == frames[1]
       IN /\ stepsConfig' = f.stepsConfig
          /\ correlationID' = f.correlationID
          /\ pc' = f.pc
          /\ run' = f.run
          /\ idx' = f.idx
          /\ attempt' = f.attempt
          /\ err' = f.err
          /\ errs' = f.errs
          /\ result' = f.result
          /\ obs' = f.obs
          /\ past' = f.past
    /\ frames' = <<ThisFrame>>
    /\ UNCHANGED <<kind, hasStore, faulty, afterWorkflowHooks, maxRetryAttempts,
                   repo, arg, req, out, stepOut, nested, ctor, ctx, logVars>>

\* ------------------------------------------------------------ step names in the store
\* The bytes of a step name: a letter, a space, an underscore, and a byte that
\* is none of letter, digit, space, underscore.
NameChars == {"a", " ", "_", "-"}

RECURSIVE NameStrings(_)
NameStrings(n) ==
    IF n = 0 THEN {<<>>}
    ELSE NameStrings(n - 1)
         \cup {Append(x, c) : x \in {y \in NameStrings(n - 1) : Len(y) = n - 1},
                              c \in NameChars}

\* NewSequential over one step of any name, with WithStorage of a fresh
\* Repository and WithCorrelationID.
InitNames ==
    /\ kind = "Sequential"
    /\ \E x \in NameStrings(MaxLen) :
         stepsConfig = <<[name |-> x, ContinueWorkflowOnError |-> FALSE,
                          hasRetryConfig |-> FALSE, maxAttempts |-> 0,
                          retryDecider |-> FALSE]>>
    /\ hasStore = TRUE
    /\ correlationID = CorrID
    /\ faulty = FALSE
    /\ NoHooks
    /\ InitRun

\* ------------------------------------------------------------ construction options
\* The options a caller may pass: WithLogger of one of two loggers,
\* WithStorage of a Repository, WithCorrelationID of one of two ids.
Options ==
    {[opt |-> "WithLogger", v |-> l] : l \in {"logger 1", "logger 2"}}
    \cup {[opt |-> "WithStorage", v |-> "repository"]}
    \cup {[opt |-> "WithCorrelationID", v |-> c] : c \in {CorrID, OtherID}}

RECURSIVE OptionLists(_)
OptionLists(n) ==
    IF n = 0 THEN {<<>>}
    ELSE OptionLists(n - 1)
         \cup {Append(x, o) : x \in {y \in OptionLists(n - 1) : Len(y) = n - 1},
                              o \in Options}

\* The type assertion (interface{})(s).(*Sequential[any]) on a *Sequential[T]:
\* it holds for T = any and panics for every other T.
AssertsAsSequentialOfAny(T) == T = "any"

\* What one option function does to the struct it is given.
ApplyOption(st, o) ==
    IF o.opt = "WithLogger" THEN [st EXCEPT !.log = o.v]
    ELSE IF o.opt = "WithStorage" THEN [st EXCEPT !.hasStore = TRUE]
    ELSE [st EXCEPT !.correlationID = o.v]

\* The range loop over opts, for the first n options.
RECURSIVE ApplyOptions(_, _, _)
ApplyOptions(st, os, n) ==
    IF n = 0 THEN st ELSE ApplyOption(ApplyOptions(st, os, n - 1), os[n])

\* NewSequential[T](name, stepsCfg, opts...) is about to be called.
InitNew ==
    /\ kind = "Sequential"
    /\ stepsConfig \in SharedConfigLists(1)
    /\ hasStore = FALSE
    /\ correlationID = NoID
    /\ faulty = FALSE
    /\ NoHooks
    /\ repo = NewInMemoryRepository
    /\ frames = <<>>
    /\ nested = NoNested
    /\ \E T \in {"any", "string"}, os \in OptionLists(MaxOpts) :
         ctor = [T |-> T, opts |-> os, log |-> "nil"]
    /\ ctx = "live"
    /\ NoLogging
    /\ pc = "new"
    /\ run = 0
    /\ idx = 0
    /\ attempt = 0
    /\ err = NilErr
    /\ errs = <<>>
    /\ arg = ZeroValue
    /\ req = ZeroValue
    /\ out = ZeroValue
    /\ stepOut = ZeroValue
    /\ result = NoResult
    /\ obs = FreshObs
    /\ past = NoPast

\* NewSequential: the struct is built with name and stepsCfg, then each option
\* is called on the struct asserted to be a *Sequential[any]; the assertion
\* panics at the first option when it does not hold.
NewSequential ==
    /\ kind = "Sequential"
    /\ pc = "new"
    /\ IF ctor.opts # <<>> /\ ~AssertsAsSequentialOfAny(ctor.T)
       THEN /\ pc' = "panicked"
            /\ UNCHANGED <<hasStore, correlationID, ctor>>
       ELSE LET st == ApplyOptions([log |-> "nil", hasStore |-> FALSE,
                                    correlationID |-> NoID],
                                   ctor.opts, Len(ctor.opts))
            IN /\ hasStore' = st.hasStore
               /\ correlationID' = st.correlationID
               /\ ctor' = [ctor EXCEPT !.log = st.log]
               /\ pc' = "idle"
    /\ UNCHANGED <<kind, stepsConfig, faulty, afterWorkflowHooks, maxRetryAttempts,
                   repo, run, idx, attempt, err, errs, arg, req, out, stepOut,
                   result, obs, past, frames, nested, ctx, logVars>>

\* ------------------------------------------------------------ the request
\* NewSequential without a store; Execute will be called with any request.
InitRequest ==
    /\ kind = "Sequential"
    /\ \E n \in 1..MaxSteps : stepsConfig \in ReplayConfigLists(n)
    /\ hasStore = FALSE
    /\ correlationID = NoID
    /\ faulty = FALSE
    /\ NoHooks
    /\ repo = NewInMemoryRepository
    /\ InitAlone
    /\ arg \in Values
    /\ InitLocals

\* ------------------------------------------------------------ retried steps
\* The steps of a Pipe that are retried up to MaxAttempts times or not at all.
PipeReplayLists(n) ==
    {l \in ConfigLists("Pipe", n) :
        \A i \in 1..n : /\ l[i].hasRetryConfig = l[i].retryDecider
                        /\ l[i].maxAttempts \in {0, MaxAttempts}
                        /\ l[i].hasRetryConfig => l[i].maxAttempts = MaxAttempts}

\* NewSequential without options, or NewPipe, over such steps.
InitRetry ==
    /\ \/ /\ kind = "Sequential"
          /\ \E n \in 0..MaxSteps : stepsConfig \in ReplayConfigLists(n)
       \/ /\ kind = "Pipe"
          /\ \E n \in 0..MaxSteps : stepsConfig \in PipeReplayLists(n)
    /\ hasStore = FALSE
    /\ correlationID = NoID
    /\ faulty = FALSE
    /\ NoHooks
    /\ InitRun

\* ------------------------------------------------------------ steps of the same name
\* The names the steps of a list may have: two names that differ by a byte the
\* sanitizer drops, and a third one.
SomeNames == {<<"a">>, <<"a", "-">>, <<"b">>}

\* The lists of n steps, none retried, each with one of these names.
RECURSIVE NamedConfigLists(_)
NamedConfigLists(n) ==
    IF n = 0 THEN {<<>>}
    ELSE {Append(l, [name |-> x, ContinueWorkflowOnError |-> c,
                     hasRetryConfig |-> FALSE, maxAttempts |-> 0,
                     retryDecider |-> FALSE]) :
            l \in NamedConfigLists(n - 1), x \in SomeNames, c \in BOOLEAN}

\* NewSequential over such a list, with WithStorage of a fresh Repository and
\* WithCorrelationID.
InitSameNames ==
    /\ kind = "Sequential"
    /\ \E n \in 1..MaxSteps : stepsConfig \in NamedConfigLists(n)
    /\ hasStore = TRUE
    /\ correlationID = CorrID
    /\ faulty = FALSE
    /\ NoHooks
    /\ InitRun

\* ------------------------------------------------------------ every maxAttempts
\* The largest uint.
MaxUint == 2^WordBits - 1

\* NewSequential or NewPipe over one step that implements RetryDecider and
\* whose RetryConfigProvider returns any maxAttempts a uint can hold.
InitWide ==
    /\ kind \in {"Sequential", "Pipe"}
    /\ \E m \in 0..MaxUint :
         stepsConfig = <<[name |-> StepName(1), ContinueWorkflowOnError |-> FALSE,
                          hasRetryConfig |-> TRUE, maxAttempts |-> m,
                          retryDecider |-> TRUE]>>
    /\ hasStore = FALSE
    /\ correlationID = NoID
    /\ faulty = FALSE
    /\ NoHooks
    /\ InitRun

\* The step fails at every invocation and CanRetry() answers true every time;
\* the run is followed for as long as the step has been invoked no more than
\* MaxUint + 2 times.
AlwaysFailsAndRetries ==
    /\ obs[idx].inv <= MaxUint + 1
    /\ obs'[idx].last = "err"
    /\ obs'[idx].noAt = 0

\* One iteration of Sequential.executeStep's loop with such a step.
WideSeqAttempt ==
    /\ SeqAttempt
    /\ AlwaysFailsAndRetries

\* One iteration of Pipe.executeStep's loop with such a step.
WidePipeAttempt ==
    /\ PipeAttempt
    /\ AlwaysFailsAndRetries

\* ------------------------------------------------------------ log messages
\* Two goroutines, each calling Execute on a Pipe engine of its own with a
\* logger and an empty step list: Execute logs concatStr("[START] ...", name)
\* and, deferred, concatStr("[DONE] ...", name). bufPool is a package variable,
\* shared by every engine of the process.
Goroutines == {1, 2}

\* The name of the engine goroutine g runs; the names have the same length.
EngineName(g) == IF g = 1 THEN "workflow A" ELSE "workflow B"

\* The strings the c-th concatStr call of goroutine g is given.
LogParts(g, c) ==
    <<IF c = 1 THEN "[START] executing workflow: " ELSE "[DONE] executing workflow: ",
      EngineName(g)>>

\* new(bytes.Buffer): the backing array (one cell per string written; it is
\* large enough for every message of the model) and the length.
NewBuffer == [arr |-> <<"", "">>, len |-> 0]

\* A goroutine that is not in a log call. b: the buffer concatStr holds;
\* msg: the string concatStr returned, which is the first n cells of the
\* backing array of buffer b (unsafe.String over the buffer's bytes);
\* built: what concatStr wrote; calls: the log calls completed.
NoLogCall == [pc |-> "idle", calls |-> 0, b |-> 0, k |-> 0,
              msg |-> [b |-> 0, n |-> 0], built |-> <<>>]

\* The content of a string returned by concatStr, as a reader finds it now.
StringOf(m) == IF m.b = 0 THEN <<>> ELSE SubSeq(buffers[m.b].arr, 1, m.n)

\* Two NewPipe calls with a logger, over no steps.
InitLog ==
    /\ kind = "Pipe"
    /\ stepsConfig = <<>>
    /\ hasStore = FALSE
    /\ correlationID = NoID
    /\ faulty = FALSE
    /\ NoHooks
    /\ repo = NewInMemoryRepository
    /\ InitEngine
    /\ ctx = "live"
    /\ bufPool = {}
    /\ buffers = <<>>
    /\ loggers = [g \in Goroutines |-> NoLogCall]
    /\ arg = ZeroValue
    /\ InitLocals

\* b := bufPool.Get().(*bytes.Buffer): any buffer of the pool, or a new one
\* (Get may call New although the pool holds buffers).
LogGet(g) ==
    /\ loggers[g].pc = "idle"
    /\ loggers[g].calls < MaxCalls
    /\ \/ \E b \in bufPool :
            /\ bufPool' = bufPool \ {b}
            /\ buffers' = buffers
            /\ loggers' = [loggers EXCEPT ![g].pc = "reset", ![g].b = b]
       \/ /\ Len(buffers) < MaxBufs
          /\ bufPool' = bufPool
          /\ buffers' = Append(buffers, NewBuffer)
          /\ loggers' = [loggers EXCEPT ![g].pc = "reset", ![g].b = Len(buffers) + 1]
    /\ UNCHANGED <<engineVars, frames, nested, ctor, ctx, arg, repo, pc, run, idx,
                   attempt, err, errs, req, out, stepOut, result, obs, past>>

\* b.Reset(): the length is set to zero, the backing array is kept.
LogReset(g) ==
    /\ loggers[g].pc = "reset"
    /\ buffers' = [buffers EXCEPT ![loggers[g].b].len = 0]
    /\ loggers' = [loggers EXCEPT ![g].pc = "write", ![g].k = 0, ![g].built = <<>>]
    /\ UNCHANGED <<engineVars, frames, nested, ctor, ctx, arg, repo, pc, run, idx,
                   attempt, err, errs, req, out, stepOut, result, obs, past, bufPool>>

\* One iteration of the range loop: b.WriteString(v) writes v into the backing
\* array after the bytes written so far.
LogWriteString(g) ==
    /\ loggers[g].pc = "write"
    /\ LET l == loggers[g]
           in_ == LogParts(g, l.calls + 1)
           v == in_[l.k + 1]
           b == l.b
       IN /\ buffers' = [buffers EXCEPT ![b].arr[buffers[b].len + 1] = v,
                                         ![b].len = @ + 1]
          /\ loggers' = [loggers EXCEPT ![g].k = @ + 1,
                                         ![g].built = Append(@, v),
                                         ![g].pc = IF l.k + 1 = Len(in_)
                                                   THEN "return" ELSE "write"]
    /\ UNCHANGED <<engineVars, frames, nested, ctor, ctx, arg, repo, pc, run, idx,
                   attempt, err, errs, req, out, stepOut, result, obs, past, bufPool>>

\* return unsafe.String(unsafe.SliceData(b.Bytes()), len(b.Bytes())), then the
\* deferred bufPool.Put(b); the caller passes the string to its logger.
LogReturn(g) ==
    /\ loggers[g].pc = "return"
    /\ loggers' = [loggers EXCEPT ![g].pc = "logging",
                                   ![g].msg = [b |-> loggers[g].b,
                                               n |-> buffers[loggers[g].b].len],
                                   ![g].b = 0]
    /\ bufPool' = bufPool \cup {loggers[g].b}
    /\ UNCHANGED <<engineVars, frames, nested, ctor, ctx, arg, repo, pc, run, idx,
                   attempt, err, errs, req, out, stepOut, result, obs, past, buffers>>

\* The logger has read the message: Info returns.
LogDone(g) ==
    /\ loggers[g].pc = "logging"
    /\ loggers' = [loggers EXCEPT ![g].pc = "idle", ![g].calls = @ + 1,
                                   ![g].msg = [b |-> 0, n |-> 0],
                                   ![g].built = <<>>]
    /\ UNCHANGED <<engineVars, frames, nested, ctor, ctx, arg, repo, pc, run, idx,
                   attempt, err, errs, req, out, stepOut, result, obs, past,
                   bufPool, buffers>>

\* ------------------------------------------------------------ the context
\* NewSequential without options, or NewPipe, over steps that are retried up
\* to MaxAttempts times or not at all; Execute will be called with a context
\* that is live or already cancelled. The steps ignore the context.
InitContext ==
    /\ \/ /\ kind = "Sequential"
          /\ \E n \in 0..MaxSteps : stepsConfig \in ReplayConfigLists(n)
       \/ /\ kind = "Pipe"
          /\ \E n \in 0..MaxSteps : stepsConfig \in PipeReplayLists(n)
    /\ hasStore = FALSE
    /\ correlationID = NoID
    /\ faulty = FALSE
    /\ NoHooks
    /\ repo = NewInMemoryRepository
    /\ InitEngine
    /\ ctx \in {"live", "cancelled"}
    /\ NoLogging
    /\ arg = ZeroValue
    /\ InitLocals

\* ------------------------------------------------------------ specification
Next ==
    \/ SeqExecute
    \/ SeqSkipStep
    \/ SeqAttempt
    \/ SeqStoreResult
    \/ SeqReturn
    \/ PipeExecute
    \/ PipeAttempt
    \/ PipeAfterStep
    \/ PipeReturn

\* One Execute call on one engine of either type.
Spec == Init /\ [][Next]_vars

NextReplay ==
    \/ SeqExecute
    \/ SeqExecuteAgain
    \/ SeqSkipStep
    \/ SeqAttempt
    \/ SeqStoreResult
    \/ SeqReturn

\* Up to MaxRuns Execute calls over one Repository and one correlation id.
SpecReplay == InitReplay /\ [][NextReplay]_vars

NextStore ==
    \/ SeqExecute
    \/ SeqSkipStep
    \/ SeqAttempt
    \/ SeqStoreResult
    \/ SeqReturn

\* One Execute call of a Sequential engine with a Storage attached.
SpecStore == InitStore /\ [][NextStore]_vars

NextHooks ==
    \/ HooksExecute
    \/ HooksAttempt
    \/ HooksAfterStep
    \/ HooksRunHook
    \/ HooksReturn

\* One Execute call on the Sequential engine with after-workflow hooks.
SpecHooks == InitHooks /\ [][NextHooks]_vars

NextNested ==
    \/ SeqExecute
    \/ SeqSkipStep
    \/ NestedPlainAttempt
    \/ NestedCall
    \/ NestedReturn
    \/ SeqStoreResult
    \/ SeqReturn

\* One Execute call on a Sequential engine that has another Sequential engine
\* as one of its steps.
SpecNested == InitNested /\ [][NextNested]_vars

NextShared ==
    \/ SeqExecute
    \/ SeqSkipStep
    \/ SeqAttempt
    \/ SeqStoreResult
    \/ SeqReturn
    \/ SharedSwitch

\* Two engines with different correlation ids run concurrently, one Execute
\* call each, against one Repository.
SpecShared == InitShared /\ [][NextShared]_vars

\* One Execute call of an engine whose step has any name: the Repository
\* stores the step's result under the sanitized name.
SpecNames == InitNames /\ [][NextStore]_vars

NextNew ==
    \/ NewSequential
    \/ SeqExecute
    \/ SeqSkipStep
    \/ SeqAttempt
    \/ SeqStoreResult
    \/ SeqReturn

\* NewSequential with any options for a request type T, then one Execute call.
SpecNew == InitNew /\ [][NextNew]_vars

\* One Execute call of a Sequential engine with any request value.
SpecRequest == InitRequest /\ [][NextStore]_vars

\* One Execute call on one engine of either type, without a store, whose
\* steps are retried up to MaxAttempts times or not at all.
SpecRetry == InitRetry /\ [][Next]_vars

\* One Execute call on one engine of either type, with a live or an already
\* cancelled context.
SpecContext == InitContext /\ [][Next]_vars

\* One Execute call of an engine with a fresh Repository whose steps may share
\* a name.
SpecSameNames == InitSameNames /\ [][NextStore]_vars

\* One Execute call on an engine of either type, without a store or with the
\* Repository and a correlation id: a call that has been made goes on, every
\* step invocation, CanRetry() call and store call returning.
SpecTerminates == (InitRetry \/ InitReplay) /\ [][Next]_vars /\ WF_vars(Next)

NextWide ==
    \/ SeqExecute
    \/ SeqSkipStep
    \/ WideSeqAttempt
    \/ SeqStoreResult
    \/ SeqReturn
    \/ PipeExecute
    \/ WidePipeAttempt
    \/ PipeAfterStep

\* One Execute call over one always-failing, always-retryable step, for every
\* maxAttempts of the uint range.
SpecWide == InitWide /\ [][NextWide]_vars

NextLog ==
    \E g \in Goroutines :
        \/ LogGet(g)
        \/ LogReset(g)
        \/ LogWriteString(g)
        \/ LogReturn(g)
        \/ LogDone(g)

\* The log calls of two Execute calls that run concurrently, each on an engine
\* of its own.
SpecLog == InitLog /\ [][NextLog]_vars

TypeOK ==
    /\ kind \in {"Sequential", "Pipe", "SequentialHooks"}
    /\ pc \in {"new", "panicked",
              "idle", "loop", "attempt", "store", "after", "hook", "finish", "done"}
    /\ run \in 0..MaxRuns
    /\ idx \in 0..(NumSteps + NumHooks + 1)

\* ------------------------------------------------------------ claims
Steps == 1..NumSteps

Returned == pc = "done"

\* The attempt sequence of step i has ended in the current run.
Ended(i) == obs[i].inv > 0 /\ ~(idx = i /\ pc = "attempt")

\* The error Execute returned holds an error of step i (errors.Is).
ReturnsErrorOf(i) == \E k \in 1..obs[i].inv : <<"step", i, k>> \in result.err.is

\* C1: when every step of a Pipe of n >= 1 steps succeeds, the first step
\* receives the initial request, every later step receives the output of the
\* step before it, and Execute returns the last step's output and a nil error.
C1_PipeThreadsOutputs ==
    (kind = "Pipe" /\ Returned /\ NumSteps >= 1 /\ \A i \in Steps : obs[i].last = "ok")
    => /\ obs[1].recv = arg
       /\ \A i \in 2..NumSteps : obs[i].recv = obs[i - 1].outv
       /\ result.out = obs[NumSteps].outv
       /\ result.err = NilErr

\* C2: with a store and a correlation id, a step whose stored status is
\* SUCCESS is neither invoked nor saved and the loop goes on with the next
\* step; a step whose status is FAILED, or that has no stored result, is
\* executed.
C2_SkipOnStoredSuccess ==
    (kind = "Sequential" /\ hasStore /\ correlationID # NoID)
    => \A i \in Steps :
        /\ obs[i].got = SUCCESS
           => /\ obs[i].inv = 0
              /\ obs[i].saves = 0
              /\ idx > i
              /\ (Returned /\ i < NumSteps) => obs[i + 1].got # "nocall"
        /\ (obs[i].got \in {FAILED, "error"} /\ (idx > i \/ pc \in {"store", "finish", "done"}))
           => obs[i].inv >= 1

C2_Witness ==
    /\ kind = "Sequential" /\ Returned /\ NumSteps = 2
    /\ obs[1].got = SUCCESS /\ obs[1].inv = 0
    /\ obs[2].got = FAILED /\ obs[2].inv >= 1

\* C3: after a run in which step1 succeeded and step2 failed, a second Execute
\* with the same store and correlation id in which step2 succeeds invokes
\* step1 zero times and step2 exactly once, and returns nil.
C3_ReplayOfPartialFailure ==
    (/\ kind = "Sequential" /\ Returned /\ NumSteps = 2 /\ run = 2
     /\ past = [ok |-> {1}, failed |-> {2}, runs |-> 1]
     /\ obs[2].oks = obs[2].inv)
    => /\ obs[1].inv = 0
       /\ obs[2].inv = 1
       /\ result.err = NilErr

C3_Witness ==
    /\ kind = "Sequential" /\ Returned /\ NumSteps = 2 /\ run = 2
    /\ past = [ok |-> {1}, failed |-> {2}, runs |-> 1]
    /\ obs[1].inv = 0 /\ obs[2].inv = 1 /\ obs[2].last = "ok"
    /\ result.err = NilErr

\* C4: over runs that share the Repository and the correlation id, a step that
\* succeeded in an earlier run is not invoked again, as long as no run cleared
\* the id in between.
C4_SucceededStepNotInvokedAgain ==
    \A i \in Steps : obs[i].inv > 0 => i \notin past.ok

FailuresContinue ==
    \A i \in Steps : obs[i].last = "err" => stepsConfig[i].ContinueWorkflowOnError

C8_RetryCount ==
    \A i \in Steps :
      LET o == obs[i]
          N == stepsConfig[i].maxAttempts
      IN (/\ Ended(i)
          /\ stepsConfig[i].retryDecider
          /\ stepsConfig[i].hasRetryConfig
          /\ o.noAt = 0)
         => /\ o.oks = 0
               => /\ o.inv = N + 1
                  /\ Returned => <<"step", i, N + 1>> \in result.err.is
            /\ o.oks > 0
               => /\ o.oks = 1
                  /\ o.last = "ok"
                  /\ o.inv <= N + 1
                  /\ Returned => ~ReturnsErrorOf(i)

C8_Witness ==
    /\ Returned /\ NumSteps = 2
    /\ stepsConfig[1].retryDecider /\ stepsConfig[1].maxAttempts = MaxAttempts
    /\ stepsConfig[2].retryDecider /\ stepsConfig[2].maxAttempts = MaxAttempts
    /\ obs[1].inv = 2 /\ obs[1].last = "ok"
    /\ obs[2].inv = MaxAttempts + 1 /\ obs[2].oks = 0 /\ obs[2].noAt = 0

\* C9: CanRetry() is asked again after every failed attempt: when every attempt
\* of a step fails and CanRetry() first answers false after invocation N, the
\* step is invoked exactly N times, even when maxAttempts allows more.
C9_StopsAtFirstRefusal ==
    \A i \in Steps :
      (Ended(i) /\ obs[i].oks = 0 /\ obs[i].noAt > 0) => obs[i].inv = obs[i].noAt

C9_Witness ==
    \E i \in Steps :
      /\ Returned /\ obs[i].oks = 0
      /\ obs[i].noAt = 2 /\ obs[i].inv = 2
      /\ stepsConfig[i].hasRetryConfig /\ stepsConfig[i].maxAttempts >= 2

\* C10: a step is invoked more than once only if it has a RetryConfigProvider
\* returning maxAttempts > 0, implements RetryDecider, and CanRetry() answered
\* true after each failed attempt but the last; a failing step without a
\* RetryConfigProvider, or without RetryDecider, is invoked exactly once.
C10_RetryNeedsConfigAndDecider ==
    \A i \in Steps :
      LET o == obs[i]
          cfg == stepsConfig[i]
      IN /\ o.inv > 1
            => /\ cfg.hasRetryConfig /\ cfg.maxAttempts > 0
               /\ cfg.retryDecider
               /\ o.yes >= o.inv - 1
         /\ (Ended(i) /\ o.last = "err" /\ ~cfg.hasRetryConfig) => o.inv = 1
         /\ (Ended(i) /\ o.last = "err" /\ ~cfg.retryDecider) => o.inv = 1

C10_Witness ==
    /\ Returned /\ NumSteps = 2
    /\ ~stepsConfig[1].hasRetryConfig /\ stepsConfig[1].retryDecider
    /\ obs[1].last = "err" /\ obs[1].yes = 1 /\ obs[1].inv = 1
    /\ stepsConfig[2].hasRetryConfig /\ stepsConfig[2].maxAttempts = MaxAttempts
    /\ ~stepsConfig[2].retryDecider
    /\ obs[2].last = "err" /\ obs[2].inv = 1

\* C11: Pipe.Execute stops at the first step whose attempt sequence ends in
\* error: it returns at once that step's error and that step's last output, and
\* no later step is invoked.
C11_PipeStopsAtFirstError ==
    kind = "Pipe"
    => \A i \in Steps :
         (Ended(i) /\ obs[i].last = "err")
         => /\ idx = i /\ pc \in {"after", "done"}
            /\ \A j \in (i + 1)..NumSteps : obs[j].inv = 0
            /\ Returned => /\ result.err = StepErr(i, obs[i].inv)
                           /\ result.out = obs[i].outv

C11_Witness ==
    /\ kind = "Pipe" /\ Returned /\ NumSteps = 2
    /\ obs[1].last = "err" /\ obs[1].inv = 2 /\ obs[1].outv = MaxValue
    /\ obs[2].inv = 0
    /\ result.err = StepErr(1, 2) /\ result.out = MaxValue

\* The errors executeStep returned for the steps 1..n, in step order.
RECURSIVE ReturnedErrs(_)
ReturnedErrs(n) ==
    IF n = 0 THEN <<>>
    ELSE IF obs[n].ret # NilErr THEN Append(ReturnedErrs(n - 1), obs[n].ret)
    ELSE ReturnedErrs(n - 1)

\* What Execute returns for one collected error, and for two or more: the very
\* error, and a composite that holds every collected error, one per failed
\* step, in step order.
AggregatesCollected ==
    /\ errs = ReturnedErrs(NumSteps)
    /\ \A i \in Steps : obs[i].last = "err" => obs[i].ret # NilErr
    /\ Len(errs) = 1 => result.err = errs[1]
    /\ Len(errs) >= 2
       => /\ result.err.text = <<"join", [k \in 1..Len(errs) |-> errs[k].text]>>
          /\ \A k \in 1..Len(errs) : errs[k].is \subseteq result.err.is

Past(i) == idx > i \/ (idx = i /\ pc \in {"finish", "done"})

\* C17: with a store and a correlation id, each step that is executed causes
\* exactly one Save, issued after its final attempt whatever the number of
\* attempts: FAILED with the text of the final error when the attempt sequence
\* ended in error, SUCCESS with an empty output text when it ended in success.
C17_OneSavePerExecutedStep ==
    (kind = "Sequential" /\ hasStore /\ correlationID # NoID)
    => \A i \in Steps :
         LET o == obs[i]
         IN /\ (idx = i /\ pc = "attempt") => o.saves = 0
            /\ o.inv = 0 => o.saves = 0
            /\ (o.inv >= 1 /\ Past(i))
               => /\ o.saves = 1
                  /\ o.last = "err"
                     => /\ o.saved = FAILED
                        /\ o.savedOut = StepErr(i, o.inv).text
                        /\ o.savedOf = StepErr(i, o.inv).is
                  /\ o.last = "ok"
                     => /\ o.saved = SUCCESS
                        /\ o.savedOut = <<"", 0>>
                  /\ (o.db = "nil" /\ ~result.cleared)
                     => \E k \in 1..Len(repo[correlationID]) :
                          repo[correlationID][k] =
                            [name |-> clean(stepsConfig[i].name),
                             status |-> o.saved, output |-> o.savedOut]

C17_Witness ==
    /\ kind = "Sequential" /\ Returned /\ NumSteps = 2 /\ ~faulty
    /\ correlationID = CorrID
    /\ obs[1].inv = 2 /\ obs[1].last = "ok"
    /\ obs[1].saves = 1 /\ obs[1].saved = SUCCESS
    /\ obs[2].inv = MaxAttempts + 1 /\ obs[2].last = "err"
    /\ obs[2].saves = 1 /\ obs[2].saved = FAILED
    /\ obs[2].savedOf = {<<"step", 2, MaxAttempts + 1>>}

\* C18: Sequential.Execute calls the store's Clear for its correlation id if
\* and only if a store and a correlation id are configured and the run
\* collected zero errors; then exactly once, after all steps were processed;
\* a run that ends with any error leaves the stored results in place.
C18_ClearOnlyAfterCleanRun ==
    kind = "Sequential"
    => /\ ~Returned => result.clears = 0
       /\ Returned
          => /\ result.clears =
                  IF hasStore /\ correlationID # NoID /\ Len(errs) = 0 THEN 1 ELSE 0
             /\ result.clears = 1 => \A i \in Steps : Past(i)
             /\ result.cleared => result.clears = 1 /\ repo[correlationID] = <<>>
             /\ result.err # NilErr
                => /\ ~result.cleared
                   /\ \A i \in Steps :
                        obs[i].db = "nil"
                        => \E k \in 1..Len(repo[correlationID]) :
                             repo[correlationID][k] =
                               [name |-> clean(stepsConfig[i].name),
                                status |-> obs[i].saved,
                                output |-> obs[i].savedOut]

C18_Witness ==
    /\ kind = "Sequential" /\ Returned /\ NumSteps = 2
    /\ correlationID = CorrID
    /\ obs[1].got = SUCCESS /\ obs[1].inv = 0
    /\ obs[2].last = "ok" /\ obs[2].db = "nil"
    /\ result.clears = 1 /\ result.cleared /\ result.err = NilErr
    /\ repo[CorrID] = <<>>

\* C19: the skip lookup fails open: whenever Get returns an error for a step,
\* not found or any other failure, the step is treated as not previously
\* succeeded and is executed; it is never skipped.
C19_LookupFailsOpen ==
    (kind = "Sequential" /\ hasStore /\ correlationID # NoID)
    => \A i \in Steps :
         obs[i].got = "error"
         => /\ idx >= i
            /\ idx = i => pc \in {"attempt", "store", "finish", "done"}
            /\ (Past(i) \/ (idx = i /\ pc = "store")) => obs[i].inv >= 1

C19_Witness ==
    /\ kind = "Sequential" /\ Returned /\ NumSteps = 2 /\ faulty
    /\ correlationID = CorrID
    /\ obs[1].got = "error" /\ obs[1].inv >= 1 /\ obs[1].db = "failed"
    /\ obs[2].got = "error" /\ obs[2].inv >= 1
    /\ Len(RepoList(repo, CorrID)) >= 1
    /\ repo[CorrID][1] = [name |-> clean(StepName(1)), status |-> SUCCESS,
                          output |-> <<"", 0>>]

Hooks == 1..NumHooks

\* C20: after-workflow hooks always run: whatever the outcome of the main loop,
\* every configured hook is executed exactly once, in configuration order,
\* after the main steps, and a hook that returns an error never stops the
\* hooks after it.
C20_HooksAlwaysRun ==
    kind = "SequentialHooks"
    => /\ Returned => \A j \in Hooks : obs[NumSteps + j].inv = 1
       /\ \A j \in Hooks :
            /\ obs[NumSteps + j].inv <= 1
            /\ obs[NumSteps + j].inv = 1
               => /\ pc \in {"hook", "finish", "done"}
                  /\ \A k \in 1..(j - 1) : obs[NumSteps + k].inv = 1
       /\ pc \in {"attempt", "after"} => \A j \in Hooks : obs[NumSteps + j].inv = 0

C20_Witness ==
    /\ kind = "SequentialHooks" /\ Returned /\ NumSteps = 2 /\ NumHooks = 2
    /\ obs[1].last = "err" /\ ~stepsConfig[1].ContinueWorkflowOnError
    /\ obs[2].inv = 0
    /\ obs[3].inv = 1 /\ obs[3].last = "err"
    /\ obs[4].inv = 1 /\ obs[4].last = "ok"
    /\ Len(errs) = 2

\* C21: an error returned by an after-workflow hook is present in the aggregate
\* error Execute returns, after the errors of the main steps; Execute returns
\* nil only if neither a main step nor a hook failed.
C21_HookErrorsAggregated ==
    (kind = "SequentialHooks" /\ Returned)
    => /\ errs = ReturnedErrs(NumSteps + NumHooks)
       /\ \A j \in Hooks :
            obs[NumSteps + j].last = "err"
            => /\ \E k \in 1..Len(errs) :
                    /\ errs[k] = StepErr(NumSteps + j, 1)
                    /\ k <= Len(result.err.text[2])
                    /\ result.err.text[2][k] = StepErr(NumSteps + j, 1).text
                    /\ \A m \in 1..Len(errs) : errs[m].text[2] <= NumSteps => m < k
               /\ StepErr(NumSteps + j, 1).is \subseteq result.err.as
       /\ errs # <<>> => result.err = workflowErr(errs)
       /\ result.err = NilErr
          <=> \A i \in 1..(NumSteps + NumHooks) : obs[i].last # "err"

C21_Witness ==
    /\ kind = "SequentialHooks" /\ Returned /\ NumSteps = 2 /\ NumHooks = 2
    /\ obs[1].last = "err" /\ obs[2].last = "ok"
    /\ obs[3].last = "ok" /\ obs[4].last = "err"
    /\ errs = <<StepErr(1, obs[1].inv), StepErr(4, 1)>>
    /\ result.err = workflowErr(errs)

\* C22: steps run one at a time in configuration order, in both engines: a
\* step that has been invoked is never ahead of the loop's position, so when
\* step j is invoked every earlier step's attempt sequence is over and no
\* later step has been invoked; the step being attempted is the one at idx.
C22_StepsInListOrder ==
    kind \in {"Sequential", "Pipe"}
    => /\ \A j \in Steps : obs[j].inv > 0 => idx >= j
       /\ \A i \in Steps, j \in Steps :
            (i < j /\ obs[j].inv > 0) => Past(i)
       /\ pc = "attempt" => \A j \in Steps : j > idx => obs[j].inv = 0

\* The end of a two-step run in which each step was retried.
C22_Witness ==
    /\ Returned
    /\ NumSteps = 2
    /\ obs[1].inv = 2
    /\ obs[2].inv = 2

\* The rule of the range loop: a step is reached when every step before it
\* succeeded or is configured to let the workflow continue.
ReachedByRule(cfgs, o, j) ==
    \A k \in 1..(j - 1) : o[k].last = "ok" \/ cfgs[k].ContinueWorkflowOnError

\* C23: a Sequential workflow is a step of another one. While it runs, the
\* outer workflow is at its position: the steps before it are over and no later
\* step has been invoked; its own steps run in list order, each one reached by
\* the rule of the range loop and none skipped. Once it returned, it has run
\* once, it counts as failed exactly when one of its steps ended in error, the
\* error of each such step is found in what the outer executeStep got and in
\* what the outer Execute returns, and the outer steps after it are reached by
\* the same rule as after any step (stop or continue by its configuration).
C23_NestedWorkflowIsAStep ==
    (kind = "Sequential" /\ nested.at > 0)
    => LET p == nested.at
           inner == nested.stepsConfig
       IN /\ frames # <<>>
             => /\ frames[1].idx = p
                /\ frames[1].pc = "attempt"
                /\ \A j \in 1..Len(frames[1].stepsConfig) :
                     /\ j > p => frames[1].obs[j].inv = 0
                     /\ j < p => frames[1].obs[j].inv > 0
                /\ stepsConfig = inner
                /\ \A j \in Steps :
                     /\ obs[j].inv > 0 => idx >= j /\ ReachedByRule(inner, obs, j)
                     /\ Past(j) => obs[j].inv > 0
          /\ (frames = <<>> /\ nested.runs = 0) => obs[p].inv = 0
          /\ (frames = <<>> /\ nested.runs > 0)
             => /\ nested.runs = 1
                /\ nested.result.returned
                /\ \A i \in 1..Len(inner) :
                     nested.obs[i].inv > 0 <=> ReachedByRule(inner, nested.obs, i)
                /\ obs[p].inv = 1
                /\ obs[p].last = "err"
                   <=> \E i \in 1..Len(inner) : nested.obs[i].last = "err"
                /\ \A i \in 1..Len(inner) :
                     nested.obs[i].last = "err"
                     => /\ (pc = "store" /\ idx = p)
                           => <<"nested", i, nested.obs[i].inv>> \in err.is
                        /\ Returned
                           => <<"nested", i, nested.obs[i].inv>> \in result.err.is
                /\ Returned
                   => \A j \in Steps : obs[j].inv > 0 <=> ReachedByRule(stepsConfig, obs, j)

\* The nested workflow came first, both of its steps failed, and the outer
\* workflow went on to its second step and returned.
C23_Witness ==
    /\ kind = "Sequential"
    /\ Returned
    /\ frames = <<>>
    /\ nested.at = 1
    /\ nested.runs = 1
    /\ Len(nested.stepsConfig) = 2
    /\ nested.obs[1].last = "err"
    /\ nested.obs[2].last = "err"
    /\ NumSteps = 2
    /\ obs[2].inv > 0

\* The records an engine's id held before its run: one SUCCESS record for each
\* step of okset, in step order.
RECURSIVE StoredBefore(_, _)
StoredBefore(okset, n) ==
    IF n = 0 THEN <<>>
    ELSE IF n \in okset
         THEN Append(StoredBefore(okset, n - 1),
                     [name |-> clean(StepName(n)), status |-> SUCCESS, output |-> <<"", 0>>])
         ELSE StoredBefore(okset, n - 1)

\* The records engine e saved for the first n steps in its run, in step order.
RECURSIVE SavedBy(_, _)
SavedBy(e, n) ==
    IF n = 0 THEN <<>>
    ELSE IF e.obs[n].saves = 1
         THEN Append(SavedBy(e, n - 1),
                     [name |-> clean(StepName(n)), status |-> e.obs[n].saved,
                      output |-> e.obs[n].savedOut])
         ELSE SavedBy(e, n - 1)

\* Step i of engine e is over: skipped, or executed and its result stored.
FramePast(e, i) == e.idx > i \/ (e.idx = i /\ e.pc \in {"finish", "done"})

\* Engine e took its skip decisions from the results of its own id, executed
\* once the steps it had to, and its id's stored list is what was there before
\* followed by what e saved, or empty once e cleared it.
OwnIdOnly(e) ==
    LET n == Len(e.stepsConfig)
    IN /\ \A i \in 1..n :
            /\ e.obs[i].got # "nocall"
               => (e.obs[i].got = SUCCESS <=> i \in e.past.ok)
            /\ e.obs[i].inv > 0 => i \notin e.past.ok
            /\ (FramePast(e, i) /\ i \notin e.past.ok) => e.obs[i].inv = 1
            /\ FramePast(e, i) => e.obs[i].saves = e.obs[i].inv
       /\ RepoList(repo, e.correlationID)
            = IF e.result.cleared THEN <<>>
              ELSE StoredBefore(e.past.ok, n) \o SavedBy(e, n)

\* C24: two Sequential engines with different correlation ids run concurrently
\* against one shared Repository: under every interleaving each engine's skip
\* decisions, saves and Clear concern its own id only.
C24_RunsIsolatedByCorrelationID ==
    (kind = "Sequential" /\ nested.at = 0 /\ frames # <<>>)
    => /\ correlationID # frames[1].correlationID
       /\ OwnIdOnly(ThisFrame)
       /\ OwnIdOnly(frames[1])
       /\ DOMAIN repo \subseteq {correlationID, frames[1].correlationID}

\* Interleaved runs: both engines are in the middle of their runs, each has
\* saved the result of its first step; one of them had a result stored before.
C24_Witness ==
    /\ kind = "Sequential"
    /\ nested.at = 0
    /\ frames # <<>>
    /\ NumSteps = 2
    /\ pc = "store" /\ idx = 2
    /\ frames[1].pc = "attempt" /\ frames[1].idx = 2
    /\ obs[1].saves = 1
    /\ frames[1].obs[1].got = SUCCESS
    /\ past.ok = {}

\* The reference normalization of a name: the bytes other than letters,
\* digits, space and underscore removed.
RECURSIVE RefFilter(_, _)
RefFilter(x, n) ==
    IF n = 0 THEN <<>>
    ELSE IF x[n] \in Letters \cup Digits \cup {" ", "_"}
         THEN Append(RefFilter(x, n - 1), x[n])
         ELSE RefFilter(x, n - 1)

\* Each run of spaces collapsed to one space, each run of underscores to one
\* underscore.
RECURSIVE RefCollapse(_, _)
RefCollapse(x, n) ==
    IF n = 0 THEN <<>>
    ELSE IF n > 1 /\ x[n] \in {" ", "_"} /\ x[n] = x[n - 1]
         THEN RefCollapse(x, n - 1)
         ELSE Append(RefCollapse(x, n - 1), x[n])

\* Every space replaced with an underscore.
RefNormalize(x) ==
    LET f == RefFilter(x, Len(x))
        c == RefCollapse(f, Len(f))
    IN [k \in 1..Len(c) |-> IF c[k] = " " THEN "_" ELSE c[k]]

\* C25: the name a step's result is stored under (clean of the step's name) is
\* the reference normalization of the step's name.
C25_CleanIsReference ==
    (kind = "Sequential" /\ NumSteps = 1 /\ Len(RepoList(repo, correlationID)) >= 1)
    => repo[correlationID][1].name = RefNormalize(stepsConfig[1].name)

LastOption(os, kind_, d) ==
    LET at == {k \in 1..Len(os) : os[k].opt = kind_}
    IN IF at = {} THEN d ELSE os[CHOOSE k \in at : \A m \in at : m <= k].v

\* C27: NewSequential succeeds for any request type T and any list of options,
\* and sets the logger, the store and the correlation id each to what the last
\* option of its kind gave, or leaves it at its default when there is none.
C27_OptionsIndependent ==
    (kind = "Sequential" /\ pc # "new")
    => /\ pc # "panicked"
       /\ ctor.log = LastOption(ctor.opts, "WithLogger", "nil")
       /\ hasStore = (LastOption(ctor.opts, "WithStorage", "none") = "repository")
       /\ correlationID = LastOption(ctor.opts, "WithCorrelationID", NoID)

LastInvoked ==
    LET inv == {i \in Steps : obs[i].inv > 0}
    IN IF inv = {} THEN 0 ELSE CHOOSE i \in inv : \A m \in inv : m <= i

\* C29: in the Pipe engine every attempt of a step receives the input its first
\* attempt received, whatever the failed attempts returned, and the value
\* executeStep returns for the step is the output of its last attempt.
C29_PipeRetriesKeepInput ==
    kind = "Pipe"
    => /\ \A i \in Steps : obs[i].inv > 0 => obs[i].recv = obs[i].first
       /\ (pc \in {"attempt", "after"} /\ obs[idx].inv > 0) => stepOut = obs[idx].outv
       /\ (Returned /\ LastInvoked > 0) => result.out = obs[LastInvoked].outv

\* A step was invoked three times and its last attempt returned a value other
\* than its input.
C29_Witness ==
    /\ kind = "Pipe"
    /\ pc = "after"
    /\ obs[idx].inv = 3
    /\ obs[idx].outv # obs[idx].first
    /\ obs[idx].last = "err"

\* C30: in both engines the retry delay is applied before every retry and
\* never before the first attempt: a step that was invoked n times was slept
\* for n - 1 times, and the latest sleep came right before the latest
\* invocation.
C30_DelayBeforeRetriesOnly ==
    kind \in {"Sequential", "Pipe"}
    => \A i \in Steps :
         /\ obs[i].inv = 0 => obs[i].sleeps = 0
         /\ obs[i].inv >= 1 => obs[i].sleeps = obs[i].inv - 1
         /\ obs[i].inv <= 1 => obs[i].sleptBefore = 0
         /\ obs[i].inv >= 2 => obs[i].sleptBefore = obs[i].inv

\* A step was invoked three times, so it was slept for twice.
C30_Witness ==
    /\ kind \in {"Sequential", "Pipe"}
    /\ NumSteps >= 1
    /\ obs[1].inv = 3
    /\ obs[1].sleeps = 2
    /\ Returned

\* C31: the engines do not consult the context. What a run invokes is fixed by
\* the step list and by what the steps and CanRetry() return, by the same rule
\* whether the context is live or already cancelled: a step is invoked exactly
\* when every step before it let the loop go on, a failing step is retried
\* until it succeeds, CanRetry() refuses or maxAttempts is used up, and each
\* retry comes after its delay.
C31_ContextNotConsulted ==
    kind \in {"Sequential", "Pipe"}
    => \A i \in Steps :
         LET o == obs[i]
             cfg == stepsConfig[i]
         IN /\ o.inv > 0 => ReachedByRule(stepsConfig, obs, i)
            /\ (Returned /\ ReachedByRule(stepsConfig, obs, i)) => o.inv > 0
            /\ (Ended(i) /\ o.last = "err" /\ cfg.retryDecider /\ o.noAt = 0)
               => o.inv = RetryMaxAttempts(cfg) + 1
            /\ (Ended(i) /\ o.last = "err" /\ o.noAt > 0) => o.inv = o.noAt
            /\ (Ended(i) /\ o.last = "err" /\ ~cfg.retryDecider) => o.inv = 1
            /\ o.oks > 0 => o.oks = 1 /\ o.last = "ok"
            /\ o.inv >= 1 => o.sleeps = o.inv - 1

\* Execute was called with a cancelled context: the first step was invoked
\* MaxAttempts + 1 times and a later step was invoked as well.
C31_Witness ==
    /\ kind \in {"Sequential", "Pipe"}
    /\ ctx = "cancelled"
    /\ Returned
    /\ NumSteps = 2
    /\ obs[1].inv = MaxAttempts + 1
    /\ obs[2].inv = MaxAttempts + 1
    /\ obs[2].last = "err"

\* C32: while a logger is reading the message concatStr built for its engine,
\* the message is what concatStr built: no concatStr call of another engine
\* alters it.
C32_LogMessageNotAltered ==
    \A g \in DOMAIN loggers :
        loggers[g].pc = "logging" => StringOf(loggers[g].msg) = loggers[g].built

\* C33: no step of a run changes the engine's step list: whatever a run does
\* (failures, retries, skips, an early stop), the list the engine holds after
\* it is the list it was constructed with, and the next Execute call goes
\* through the same steps in the same order.
C33_StepListNeverChanges == [][stepsConfig' = stepsConfig]_vars

\* The end of a second run over two different steps: the first was skipped,
\* the second was retried and failed, as it had in the first run.
C33_Witness ==
    /\ kind = "Sequential"
    /\ Returned
    /\ run = 2
    /\ NumSteps = 2
    /\ stepsConfig[1] # StepsReversed(stepsConfig)[1]
    /\ obs[1].got = SUCCESS
    /\ obs[2].got = FAILED
    /\ obs[2].inv = MaxAttempts + 1
    /\ obs[2].last = "err"

\* C34: in the variant with hooks, a main step that succeeded and whose
\* StopWorkflow() is true ends the main loop: no later main step is invoked
\* and the step adds no error. StopWorkflow() plays no part after a failed
\* step: with ContinueWorkflowOnError the next step is invoked all the same.
\* Either way every after-workflow hook is run before Execute returns.
C34_StopWorkflowAfterSuccess ==
    kind = "SequentialHooks"
    => \A i \in Steps :
         LET cfg == stepsConfig[i]
         IN /\ (obs[i].last = "ok" /\ cfg.StopWorkflow /\ idx > i)
               => /\ \A j \in (i + 1)..NumSteps : obs[j].inv = 0
                  /\ obs[i].ret = NilErr
                  /\ \A k \in 1..Len(errs) : errs[k].text # <<"step", i>>
                  /\ Returned => \A h \in Hooks : obs[NumSteps + h].inv = 1
            /\ (obs[i].last = "err" /\ cfg.StopWorkflow /\ idx > i
                /\ cfg.ContinueWorkflowOnError /\ i < NumSteps)
               => /\ obs[i + 1].inv > 0 \/ (idx = i + 1 /\ pc = "attempt")
                  /\ Returned => \A h \in Hooks : obs[NumSteps + h].inv = 1

\* The first step succeeded and stopped the workflow: the second step was not
\* invoked, both hooks ran, and Execute returned nil.
C34_Witness ==
    /\ kind = "SequentialHooks"
    /\ Returned
    /\ NumSteps = 2
    /\ NumHooks = 2
    /\ obs[1].last = "ok"
    /\ stepsConfig[1].StopWorkflow
    /\ obs[2].inv = 0
    /\ obs[3].inv = 1
    /\ obs[4].inv = 1
    /\ result.err = NilErr

\* C35: in one Execute with a store and a correlation id, the store holding no
\* results at the start, every step of the list is invoked exactly once when
\* no step fails, also when steps of the list share a name or have names that
\* are stored under the same key.
C35_SameNameStepsAllInvoked ==
    (/\ kind = "Sequential" /\ hasStore /\ correlationID # NoID
     /\ Returned
     /\ \A i \in Steps : obs[i].last # "err")
    => \A i \in Steps : obs[i].inv = 1

\* C36: for every maxAttempts of the uint range, its maximum included, a step
\* that always fails and may always be retried is invoked exactly
\* maxAttempts + 1 times: never more, and its attempt sequence is not over
\* before that many invocations.
C36_AttemptCounterNeverWraps ==
    (kind \in {"Sequential", "Pipe"} /\ NumSteps = 1 /\ run = 1)
    => LET N == stepsConfig[1].maxAttempts
       IN /\ obs[1].inv <= N + 1
          /\ pc \in {"store", "after", "finish", "done"} => obs[1].inv = N + 1

\* The invocations of the steps 1..n in the current run, and the most that
\* their configurations allow: maxAttempts + 1 for each step.
RECURSIVE TotalInvocations(_)
TotalInvocations(n) == IF n = 0 THEN 0 ELSE TotalInvocations(n - 1) + obs[n].inv

RECURSIVE TotalAllowed(_)
TotalAllowed(n) ==
    IF n = 0 THEN 0 ELSE TotalAllowed(n - 1) + stepsConfig[n].maxAttempts + 1

\* C37: every Execute call returns, in both engines, and the step invocations
\* of a run never number more than the sum over the steps of maxAttempts + 1
\* (every maxAttempts being well below the integer limit).
C37_ExecuteTerminates ==
    /\ [](TotalInvocations(NumSteps) <= TotalAllowed(NumSteps))
    /\ (pc \in {"loop", "attempt", "store", "after", "finish"}) ~> Returned

\* A run that used every attempt allowed returned.
C37_Witness ==
    /\ Returned
    /\ NumSteps = MaxSteps
    /\ \A i \in Steps : stepsConfig[i].maxAttempts = MaxAttempts
    /\ TotalInvocations(NumSteps) = TotalAllowed(NumSteps)

\* C38: Pipe.Execute on an empty step list returns a nil error and the zero
\* value of the request type, whatever request it was called with.
C38_EmptyPipeReturnsZeroValue ==
    (kind = "Pipe" /\ NumSteps = 0 /\ Returned)
    => /\ result.err = NilErr
       /\ result.out = ZeroValue

\* An empty Pipe was called with a request other than the zero value.
C38_Witness ==
    /\ kind = "Pipe"
    /\ NumSteps = 0
    /\ Returned
    /\ arg # ZeroValue
    /\ result.out = ZeroValue
    /\ result.err = NilErr

\* C39: the sanitizer is idempotent: the name a step's result is stored under
\* (clean of the step's name) is its own sanitized form, clean of it giving it
\* back unchanged.
C39_CleanIdempotent ==
    (kind = "Sequential" /\ NumSteps = 1 /\ Len(RepoList(repo, correlationID)) >= 1)
    => clean(repo[correlationID][1].name) = repo[correlationID][1].name
====
